---- MODULE Spec2Model ----
(***************************************************************************)
(* A model of conda_build/os_utils/liefldd.py: the linkage walker          *)
(* inspect_linkages_lief, the path resolver _get_resolved_location and the *)
(* per-format helpers get_rpaths, get_libraries, get_uniqueness_key.       *)
(*                                                                         *)
(* Strings are sequences of atoms.  An atom is a path separator ("/"), a   *)
(* colon, a loader token ("$RPATH", "@loader_path", ...) or a file-name    *)
(* component; the string operations of the code (replace, startswith,      *)
(* split, rstrip, dirname, join) are computed on these sequences the way   *)
(* Python computes them on characters.                                     *)
(***************************************************************************)
EXTENDS Integers, Sequences, FiniteSets, TLC

VARIABLES
    files,                \* the filesystem: real path (components) -> parsed content
    filename,             \* argument: the root artifact's path
    resolve_filenames,    \* argument
    recurse,              \* argument
    sysroot,              \* argument
    envroot,              \* argument
    pc,                   \* position in inspect_linkages_lief
    exedir,               \* local, line 339
    default_paths,        \* local, lines 343-353
    todo,                 \* local worklist, line 341
    it,                   \* index of the list iterator of `for element in todo`
    already_seen,         \* local, line 338
    results,              \* local, line 354
    rpaths_by_binary,     \* local, line 355
    parents_by_filename,  \* local, line 356
    tmp_filename,         \* local of the ancestor loops, lines 366-384
    error,                \* the exception that left the function, if any
    enqueued,             \* history: every path put into todo, in order
    popped,               \* history: every path removed by todo.pop(0), in order
    examined,             \* history: every path bound to `element`, in order
    processed,            \* history: one record per node whose references were resolved
    call,                 \* the last direct call of a helper: function, arguments, value
    decorator,            \* the class of the memoizing instance, lines 529 and 567
    cache,                \* self.cache of the instance, lines 539 and 577
    lock,                 \* self.lock: the thread that holds it, or 0
    callers,              \* per thread: its position in __call__, arguments, key, value
    computed              \* history: the calls of self.func, in the order they began

walkvars == <<files, filename, resolve_filenames, recurse, sysroot, envroot, pc,
              exedir, default_paths, todo, it, already_seen, results,
              rpaths_by_binary, parents_by_filename, tmp_filename, error,
              enqueued, popped, examined, processed>>

memovars == <<decorator, cache, lock, callers, computed>>

vars == <<walkvars, call, memovars>>

----------------------------------------------------------------------------
(* Python values *)

\* None, where a string is expected (parents_by_filename[root], exe_dirname).
None == <<"<None>">>

\* bool(s) of a str-or-None value: None and '' are false.
Truthy(s) == s # None /\ s # <<>>

----------------------------------------------------------------------------
(* str methods *)

IsPrefix(p, s) == Len(p) <= Len(s) /\ SubSeq(s, 1, Len(p)) = p

IsSuffix(p, s) == Len(p) <= Len(s) /\ SubSeq(s, Len(s) - Len(p) + 1, Len(s)) = p

\* str.replace(old, new), old non-empty: leftmost, non-overlapping occurrences.
RECURSIVE Replace(_, _, _)
Replace(s, old, new) ==
    IF s = <<>> THEN <<>>
    ELSE IF IsPrefix(old, s)
         THEN new \o Replace(SubSeq(s, Len(old) + 1, Len(s)), old, new)
         ELSE <<Head(s)>> \o Replace(Tail(s), old, new)

\* `old in s`
RECURSIVE Contains(_, _)
Contains(s, old) ==
    IF Len(s) < Len(old) THEN FALSE
    ELSE IsPrefix(old, s) \/ Contains(Tail(s), old)

\* str.split(':'): always at least one piece, '' included.
RECURSIVE SplitColon(_)
SplitColon(s) ==
    IF \A i \in 1..Len(s) : s[i] # ":" THEN <<s>>
    ELSE LET i == CHOOSE k \in 1..Len(s) : s[k] = ":" /\ \A j \in 1..(k-1) : s[j] # ":"
         IN  <<SubSeq(s, 1, i - 1)>> \o SplitColon(SubSeq(s, i + 1, Len(s)))

\* str.rstrip('/')
RECURSIVE RStripSlash(_)
RStripSlash(s) ==
    IF s # <<>> /\ s[Len(s)] = "/" THEN RStripSlash(SubSeq(s, 1, Len(s) - 1)) ELSE s

\* The atoms that begin with the character '$'.
DollarAtoms == {"$RPATH", "$SELFDIR", "$EXEDIR", "$SYSROOT", "$ORIGIN", "$LIB"}

StartsWithSlash(s) == s # <<>> /\ s[1] = "/"

StartsWithDollar(s) == s # <<>> /\ s[1] \in DollarAtoms

\* The concatenation of a list of lists.
RECURSIVE Flatten(_)
Flatten(ss) == IF ss = <<>> THEN <<>> ELSE Head(ss) \o Flatten(Tail(ss))

----------------------------------------------------------------------------
(* os.path *)

\* os.sep on the platform the walker runs on.
OsSep == "/"

\* os.path.dirname
dirname(p) ==
    LET idx  == {k \in 1..Len(p) : p[k] = "/"}
        i    == IF idx = {} THEN 0 ELSE CHOOSE k \in idx : \A j \in idx : j <= k
        head == SubSeq(p, 1, i)
    IN  IF head # <<>> /\ \E k \in 1..Len(head) : head[k] # "/"
        THEN RStripSlash(head) ELSE head

\* os.path.join(a, b)
join(a, b) ==
    IF StartsWithSlash(b) THEN b
    ELSE IF a = <<>> \/ a[Len(a)] = "/" THEN a \o b
    ELSE a \o <<"/">> \o b

\* os.path.join(a, b1, b2, ...)
RECURSIVE joinAll(_, _)
joinAll(a, bs) == IF bs = <<>> THEN a ELSE joinAll(join(a, Head(bs)), Tail(bs))

\* The working directory of the process, as path components.
Cwd == << <<"w">> >>

\* The components of a path: the non-empty runs of atoms between separators.
RECURSIVE Components(_)
Components(p) ==
    IF p = <<>> THEN <<>>
    ELSE IF \A i \in 1..Len(p) : p[i] # "/" THEN <<p>>
    ELSE LET i == CHOOSE k \in 1..Len(p) : p[k] = "/" /\ \A j \in 1..(k-1) : p[j] # "/"
             rest == Components(SubSeq(p, i + 1, Len(p)))
         IN  IF i = 1 THEN rest ELSE <<SubSeq(p, 1, i - 1)>> \o rest

\* A directory is a proper prefix of some file's real path.
IsDir(fs, comps) ==
    \E f \in DOMAIN fs : Len(comps) < Len(f) /\ SubSeq(f, 1, Len(comps)) = comps

NoEnt == << <<"<noent>">> >>

\* The kernel's walk of the components: "." stays, ".." leaves an existing
\* directory, a name enters.  NoEnt when ".." is applied to what is no directory.
RECURSIVE WalkPath(_, _, _)
WalkPath(fs, stack, rest) ==
    IF rest = <<>> THEN stack
    ELSE LET c == Head(rest) IN
         IF c = <<".">> THEN WalkPath(fs, stack, Tail(rest))
         ELSE IF c = <<"..">>
              THEN IF stack = <<>> THEN WalkPath(fs, stack, Tail(rest))
                   ELSE IF IsDir(fs, stack)
                        THEN WalkPath(fs, SubSeq(stack, 1, Len(stack) - 1), Tail(rest))
                        ELSE NoEnt
              ELSE WalkPath(fs, Append(stack, c), Tail(rest))

\* The real path (components from the root) a path string names.
RealPath(fs, p) ==
    IF p = <<>> \/ p = None THEN NoEnt
    ELSE WalkPath(fs, IF StartsWithSlash(p) THEN <<>> ELSE Cwd, Components(p))

\* os.path.exists
exists(fs, p) ==
    LET r == RealPath(fs, p) IN r \in DOMAIN fs \/ IsDir(fs, r)

----------------------------------------------------------------------------
(* The parser (lief) as the code uses it *)

\* What lief.parse gives for a file it cannot parse, or that is not there: no
\* binary object.  Reading an attribute of it raises AttributeError.
NoBinary ==
    [format |-> "NONE", type |-> "NA", name |-> <<>>, soname |-> <<>>,
     runpath |-> <<>>, rpath |-> <<>>, libraries |-> <<>>, id_dylib |-> <<>>,
     is_dll |-> FALSE]

\* lief.parse(path): the parsed content of the file the path names.
parse(fs, p) ==
    LET r == RealPath(fs, p) IN IF r \in DOMAIN fs THEN fs[r] ELSE NoBinary

\* bool(binary)
IsBinary(b) == b.format # "NONE"

\* codefile_type(file) for a file name: ensure_binary parses it.
codefile_type(fs, file) ==
    LET binary == IF exists(fs, file) THEN parse(fs, file) ELSE NoBinary IN
    IF ~IsBinary(binary) THEN "None"
    ELSE IF binary.format = "PE" THEN (IF binary.is_dll THEN "DLLfile" ELSE "EXEfile")
    ELSE IF binary.format = "MACHO" THEN "machofile"
    ELSE "elffile"

\* _trim_sysroot
RECURSIVE _trim_sysroot(_)
_trim_sysroot(s) ==
    IF s # <<>> /\ s[Len(s)] \in {"/", "\\"}
    THEN _trim_sysroot(SubSeq(s, 1, Len(s) - 1)) ELSE s

\* from_os_varnames
from_os_varnames(binary, input_) ==
    IF binary.format = "MACHO"
    THEN Replace(Replace(Replace(input_, <<"@loader_path">>, <<"$SELFDIR">>),
                         <<"@executable_path">>, <<"$EXEDIR">>),
                 <<"@rpath">>, <<"$RPATH">>)
    ELSE IF binary.format = "ELF"
    THEN LET libdir == IF binary.type = "CLASS64" THEN <<"/", "lib64">> ELSE <<"/", "lib">>
         IN  Replace(Replace(input_, <<"$ORIGIN">>, <<"$SELFDIR">>), <<"$LIB">>, libdir)
    ELSE input_

\* _get_path_dirs
_get_path_dirs(prefix) ==
    << joinAll(prefix, << <<"Library">>, <<"mingw-w64">>, <<"bin">> >>),
       joinAll(prefix, << <<"Library">>, <<"usr">>, <<"bin">> >>),
       joinAll(prefix, << <<"Library">>, <<"bin">> >>),
       joinAll(prefix, << <<"Scripts">> >>),
       joinAll(prefix, << <<"bin">> >>) >>

\* get_libraries, for a parsed binary
get_libraries(binary) ==
    IF ~IsBinary(binary) THEN <<>>
    ELSE IF binary.format = "PE" THEN binary.libraries
    ELSE IF binary.format = "MACHO"
    THEN LET has_rpath   == binary.rpath # <<>>
             named       == has_rpath /\ binary.id_dylib # <<>>
             binary_name == IF named THEN binary.id_dylib[1] ELSE None
             kept        == SelectSeq(binary.libraries,
                                      LAMBDA l : ~(named /\ Truthy(binary_name)
                                                   /\ IsSuffix(binary_name, l)))
         IN  [i \in 1..Len(kept) |-> from_os_varnames(binary, kept[i])]
    ELSE binary.libraries

\* The colon-separated entries of the dynamic section, split into directories.
SplitAll(entries) == Flatten([i \in 1..Len(entries) |-> SplitColon(entries[i])])

\* A variant of rpaths_colons that keeps the RPATH entries after the RUNPATH ones.
rpaths_colons_merged(binary) == binary.runpath \o binary.rpath

\* Lines 147-151: the RUNPATH entries, or the RPATH entries when there are none.
rpaths_colons(binary) ==
    IF Len(binary.runpath) # 0 THEN binary.runpath ELSE binary.rpath

\* get_rpaths, for a parsed binary
get_rpaths(binary, exe_dirname, env_root, windows_root) ==
    LET rpaths ==
          IF ~IsBinary(binary) THEN <<>>
          ELSE IF binary.format = "PE"
          THEN IF ~Truthy(exe_dirname) THEN <<>>
               ELSE <<Replace(exe_dirname, <<"\\">>, <<"/">>)>>
                    \o (IF Truthy(windows_root)
                        THEN <<windows_root \o <<"/", "System32">>, windows_root>>
                        ELSE <<>>)
                    \o (IF Truthy(env_root) THEN _get_path_dirs(env_root) ELSE <<>>)
          ELSE IF binary.format = "MACHO"
          THEN [i \in 1..Len(binary.rpath) |-> RStripSlash(binary.rpath[i])]
          ELSE IF binary.type \in {"CLASS32", "CLASS64"}
          THEN SplitAll(rpaths_colons(binary))
          ELSE <<>>
    IN  [i \in 1..Len(rpaths) |-> from_os_varnames(binary, rpaths[i])]

\* get_uniqueness_key, for a parsed binary (the caller has checked it is one)
get_uniqueness_key(binary) ==
    IF binary.format = "ELF" /\ binary.type \in {"CLASS32", "CLASS64"}
       /\ binary.soname # <<>>
    THEN binary.soname[1]
    ELSE binary.name

\* in_sysroot, the third component of _get_resolved_location's value:
\* `exists and sysroot and resolved.startswith(sysroot)`, whose value is
\* False, the empty string sysroot, or the bool of startswith.
ExistsSysroot(ex, sroot, resolved) ==
    IF ~ex THEN "False"
    ELSE IF sroot = <<>> THEN "''"
    ELSE IF IsPrefix(sroot, resolved) THEN "True" ELSE "False"

\* A variant of FirstMatch that accepts the first candidate without looking for
\* the file.
FirstMatchUnchecked(fs, unresolved, these_rpaths, exedir_, selfdir, resolved_rpath) ==
    IF these_rpaths = <<>> THEN 0 ELSE 1

\* A variant of FirstMatch that takes the last candidate whose file exists.
FirstMatchLast(fs, unresolved, these_rpaths, exedir_, selfdir, resolved_rpath) ==
    LET ok == {i \in 1..Len(these_rpaths) :
                 exists(fs, Replace(Replace(Replace(unresolved, <<"$RPATH">>, these_rpaths[i]),
                                            <<"$SELFDIR">>, selfdir),
                                    <<"$EXEDIR">>, exedir_))}
    IN  IF ok = {} THEN 0 ELSE CHOOSE i \in ok : \A j \in ok : j <= i

\* The first candidate of these_rpaths that is accepted (0: none), lines 306-315.
FirstMatch(fs, unresolved, these_rpaths, exedir_, selfdir, resolved_rpath) ==
    LET Sub(rpath) == Replace(Replace(Replace(unresolved, <<"$RPATH">>, rpath),
                                      <<"$SELFDIR">>, selfdir),
                              <<"$EXEDIR">>, exedir_)
        ok == {i \in 1..Len(these_rpaths) :
                 Truthy(resolved_rpath) \/ exists(fs, Sub(these_rpaths[i]))}
    IN  IF ok = {} THEN 0 ELSE CHOOSE i \in ok : \A j \in ok : i <= j

\* A variant of NoTokenLocation that looks for every reference under selfdir.
NoTokenLocationUnderSelfdir(unresolved, selfdir) ==
    <<selfdir \o <<"/">> \o unresolved, None, "False">>

\* Lines 322-326: a reference without $RPATH prefix and without tokens.
NoTokenLocation(unresolved, selfdir) ==
    IF StartsWithSlash(unresolved) THEN <<unresolved, None, "False">>
    ELSE <<join(selfdir, unresolved), None, "False">>

\* _get_resolved_location: <<resolved location, rpath used, in_sysroot>>
_get_resolved_location(fs, unresolved, exedir_, selfdir, rpaths_transitive, LD_LIBRARY_PATH, default_paths_, sysroot_, resolved_rpath) ==
    LET ld_library_paths == IF LD_LIBRARY_PATH = <<>> THEN <<>>
                            ELSE SplitColon(LD_LIBRARY_PATH)
    IN
    IF IsPrefix(<<"$RPATH">>, unresolved)
    THEN LET these_rpaths ==
               IF Truthy(resolved_rpath) THEN <<resolved_rpath>>
               ELSE rpaths_transitive \o ld_library_paths
                    \o [i \in 1..Len(default_paths_) |->
                          Replace(default_paths_[i], <<"$SYSROOT", "/">>, sysroot_)]
             m == FirstMatch(fs, unresolved, these_rpaths, exedir_, selfdir, resolved_rpath)
         IN  IF m = 0 THEN <<unresolved, None, "False">>
             ELSE LET rpath    == these_rpaths[m]
                      resolved == Replace(Replace(Replace(unresolved, <<"$RPATH">>, rpath),
                                                  <<"$SELFDIR">>, selfdir),
                                          <<"$EXEDIR">>, exedir_)
                  IN  <<resolved, rpath, ExistsSysroot(exists(fs, resolved), sysroot_, resolved)>>
    ELSE IF Contains(unresolved, <<"$SELFDIR">>) \/ Contains(unresolved, <<"$EXEDIR">>)
    THEN LET resolved == Replace(Replace(unresolved, <<"$SELFDIR">>, selfdir),
                                 <<"$EXEDIR">>, exedir_)
         IN  <<resolved, None, ExistsSysroot(exists(fs, resolved), sysroot_, resolved)>>
    ELSE NoTokenLocation(unresolved, selfdir)

----------------------------------------------------------------------------
(* inspect_linkages_lief *)

\* The arguments of a call, with the filesystem it runs on.
Args(fs, fname, rf, rc, sroot, eroot) ==
    [files |-> fs, filename |-> fname, resolve_filenames |-> rf, recurse |-> rc,
     sysroot |-> sroot, envroot |-> eroot]

\* The locals before the call, and after it has been left by an exception
\* at its first statements.
NoLocals ==
    [pc |-> "call", exedir |-> <<>>, default_paths |-> <<>>, todo |-> <<>>, it |-> 0,
     already_seen |-> {}, results |-> {}, rpaths_by_binary |-> <<>>,
     parents_by_filename |-> <<>>, tmp_filename |-> None, error |-> "",
     enqueued |-> <<>>, popped |-> <<>>, examined |-> <<>>, processed |-> <<>>]

\* An exception leaves the function.
Raise(w, exc) == [w EXCEPT !.pc = "raised", !.error = exc]

\* default_paths of the root's format, lines 343-353.
DefaultPaths(binary) ==
    IF binary.format = "ELF"
    THEN << <<"$SYSROOT", "/", "lib">>, <<"$SYSROOT", "/", "usr", "/", "lib">> >>
         \o (IF binary.type = "CLASS64"
             THEN << <<"$SYSROOT", "/", "lib64">>, <<"$SYSROOT", "/", "usr", "/", "lib64">> >>
             ELSE <<>>)
    ELSE IF binary.format = "MACHO"
    THEN << <<"$SYSROOT", "/", "usr", "/", "lib">> >>
    ELSE << <<"$SYSROOT", "/", "System32", "/", "Wbem">>,
            <<"$SYSROOT", "/", "System32", "/", "WindowsPowerShell", "/", "v1.0">> >>

\* Lines 338-356: the statements before the loop.
Begin(a) ==
    LET binary == parse(a.files, a.filename) IN
    IF ~IsBinary(binary) THEN Raise(NoLocals, "AttributeError")
    ELSE [NoLocals EXCEPT
            !.pc = "while",
            !.exedir = dirname(a.filename),
            !.default_paths = DefaultPaths(binary),
            !.todo = <<[file |-> a.filename, binary |-> binary]>>,
            !.parents_by_filename = a.filename :> None,
            !.enqueued = <<a.filename>>]

\* The ancestor loops `while tmp_filename: ...; tmp_filename = parents[tmp_filename]`
\* (lines 367-370 and 382-384): the nodes the body runs on, in order, and how
\* the loop ends: "ok", "keyerror" (tmp_filename is no key of parents) or "loop"
\* (tmp_filename comes back to a node already passed: the loop never ends).
RECURSIVE Chain(_, _, _)
Chain(parents, tmp, nodes) ==
    IF ~Truthy(tmp) THEN [status |-> "ok", nodes |-> nodes, at |-> tmp]
    ELSE IF \E i \in 1..Len(nodes) : nodes[i] = tmp
    THEN [status |-> "loop", nodes |-> nodes, at |-> tmp]
    ELSE IF tmp \notin DOMAIN parents
    THEN [status |-> "keyerror", nodes |-> Append(nodes, tmp), at |-> tmp]
    ELSE Chain(parents, parents[tmp], Append(nodes, tmp))

\* A variant of ParentExeDirname that takes the root's directory for every node.
ParentExeDirnameOfRoot(fs, binary, nodes, exedir_) == exedir_

\* Lines 364-372: the host executable directory of a node.
ParentExeDirname(fs, binary, nodes, exedir_) ==
    IF binary.format = "PE"
    THEN LET exes == {i \in 1..Len(nodes) : codefile_type(fs, nodes[i]) = "EXEfile"}
         IN  IF exes = {} THEN None
             ELSE dirname(nodes[CHOOSE i \in exes : \A j \in exes : i <= j])
    ELSE exedir_

\* A variant of RpathsTransitive that inherits nothing from the ancestors.
RpathsTransitiveOwn(binary, filename2, nodes, rpaths) == rpaths[filename2]

\* Lines 377-384: the search-path stack of a node.
RpathsTransitive(binary, filename2, nodes, rpaths) ==
    IF binary.format = "PE" THEN rpaths[filename2]
    ELSE Flatten([i \in 1..Len(nodes) |-> rpaths[nodes[Len(nodes) + 1 - i]]])

\* list.remove(x) when x is in the list: the first occurrence goes.
RemoveFirst(xs, x) ==
    IF \A i \in 1..Len(xs) : xs[i] # x THEN xs
    ELSE LET i == CHOOSE k \in 1..Len(xs) : xs[k] = x /\ \A j \in 1..(k-1) : xs[j] # x
         IN  SubSeq(xs, 1, i - 1) \o SubSeq(xs, i + 1, Len(xs))

\* Lines 389-391: RPATH made explicit everywhere except Mach-O.
TheseOrig(binary, libraries) ==
    [i \in 1..Len(libraries) |->
        IF ~StartsWithSlash(libraries[i]) /\ ~StartsWithDollar(libraries[i])
           /\ binary.format # "MACHO"
        THEN <<"$RPATH", "/">> \o libraries[i] ELSE libraries[i]]

\* The directory passed as selfdir for the node's references, line 396.
SelfDir(filename2, exedir_) == exedir_

\* A variant of Visited for a walk that keeps no visited set.
VisitedNever(key, seen) == FALSE

\* Whether a key counts as visited, line 363.
Visited(key, seen) == key \in seen

\* A variant of Enqueues that leaves out a file whose key is visited.
EnqueuesUnvisited(a, w, loc) ==
    /\ a.recurse
    /\ exists(a.files, loc)
    /\ IsBinary(parse(a.files, loc)) =>
          get_uniqueness_key(parse(a.files, loc)) \notin w.already_seen

\* Lines 403-404: whether the resolved location is appended to todo.
Enqueues(a, w, loc) == a.recurse /\ exists(a.files, loc)

\* Lines 392-407, for the resolved locations of a node's references in order.
RECURSIVE ResolveLoop(_, _, _, _, _)
ResolveLoop(a, w, filename2, origs, locs) ==
    IF origs = <<>> THEN w
    ELSE LET orig == Head(origs)
             loc  == Head(locs)
             w1   == IF a.resolve_filenames
                     THEN [w EXCEPT !.results = @ \cup {loc},
                                    !.parents_by_filename = (loc :> filename2) @@ @]
                     ELSE [w EXCEPT !.results = @ \cup {orig}]
             w2   == IF Enqueues(a, w, loc)
                     THEN [w1 EXCEPT !.todo = Append(@, [file |-> loc,
                                                          binary |-> parse(a.files, loc)]),
                                     !.enqueued = Append(@, loc)]
                     ELSE w1
         IN  ResolveLoop(a, w2, filename2, Tail(origs), Tail(locs))

\* Lines 364-408: a node whose key has not been visited.
Process(a, w, filename2, binary, key) ==
    LET isPE   == binary.format = "PE"
        chain  == Chain(w.parents_by_filename, filename2, <<>>)
    IN
    IF isPE /\ chain.status = "keyerror" THEN Raise(w, "KeyError")
    ELSE IF isPE /\ chain.status = "loop"
    THEN [w EXCEPT !.pc = "ancestors", !.tmp_filename = chain.at]
    ELSE
    LET parent_exe_dirname == ParentExeDirname(a.files, binary, chain.nodes, w.exedir)
        own     == get_rpaths(binary, parent_exe_dirname,
                              Replace(a.envroot, <<OsSep>>, <<"/">>), a.sysroot)
        rpaths1 == (filename2 :> own) @@ w.rpaths_by_binary
        w1      == [w EXCEPT !.rpaths_by_binary = rpaths1]
    IN
    IF ~isPE /\ (chain.status = "keyerror"
                 \/ \E i \in 1..Len(chain.nodes) : chain.nodes[i] \notin DOMAIN rpaths1)
    THEN Raise(w1, "KeyError")
    ELSE IF ~isPE /\ chain.status = "loop"
    THEN [w1 EXCEPT !.pc = "ancestors", !.tmp_filename = chain.at]
    ELSE
    LET rpaths_transitive == RpathsTransitive(binary, filename2, chain.nodes, rpaths1)
        libraries  == RemoveFirst(get_libraries(binary), filename2)
        these_orig == TheseOrig(binary, libraries)
        locs == [i \in 1..Len(these_orig) |->
                   _get_resolved_location(a.files, these_orig[i], w.exedir,
                                          SelfDir(filename2, w.exedir), rpaths_transitive,
                                          <<>>, w.default_paths, a.sysroot, None)[1]]
        w2 == ResolveLoop(a, w1, filename2, these_orig, locs)
    IN  [w2 EXCEPT !.already_seen = @ \cup {key},
                   !.processed = Append(@, [file |-> filename2, key |-> key,
                                            format |-> binary.format,
                                            chain |-> chain.nodes,
                                            exe_dirname |-> parent_exe_dirname,
                                            rpaths |-> own,
                                            rpaths_transitive |-> rpaths_transitive,
                                            origs |-> these_orig, locs |-> locs])]

\* Lines 358-408: one turn of `for element in todo`.  The list iterator hands
\* out todo[it] and moves on; todo.pop(0) then removes the head of the list.
ForBody(a, w) ==
    LET element   == w.todo[w.it + 1]
        filename2 == element.file
        binary    == element.binary
        w1 == [w EXCEPT !.it = @ + 1,
                        !.todo = Tail(@),
                        !.popped = Append(@, Head(w.todo).file),
                        !.examined = Append(@, filename2)]
    IN  IF ~IsBinary(binary) THEN Raise(w1, "AttributeError")
        ELSE LET uniqueness_key == get_uniqueness_key(binary) IN
             IF Visited(uniqueness_key, w1.already_seen) THEN w1
             ELSE Process(a, w1, filename2, binary, uniqueness_key)

\* One step of the function from a position where it is still running.
WalkStep(a, w) ==
    IF w.pc = "call" THEN Begin(a)
    ELSE IF w.pc = "while"
    THEN (IF w.todo # <<>> THEN [w EXCEPT !.pc = "for", !.it = 0]
          ELSE [w EXCEPT !.pc = "returned"])
    ELSE IF w.pc = "for"
    THEN (IF w.it < Len(w.todo) THEN ForBody(a, w) ELSE [w EXCEPT !.pc = "while"])
    ELSE w

\* The positions at which the function has been left.
Left == {"returned", "raised"}

\* The call run to its end; a call caught in an ancestor loop stays there.
RECURSIVE Run(_, _)
Run(a, w) == IF w.pc \in Left \cup {"ancestors"} THEN w ELSE Run(a, WalkStep(a, w))

\* The value of the call: how it ended and, when it returned, the set returned.
Outcome(a) ==
    LET w == Run(a, NoLocals) IN
    [pc |-> w.pc, error |-> w.error, results |-> IF w.pc = "returned" THEN w.results ELSE {}]

----------------------------------------------------------------------------
(* The inputs: filesystems, roots and options *)

\* The number of files of the generated dependency graphs.
NumFiles == 4

\* The absolute path string /c1/c2/... of name components.
RECURSIVE Abs(_)
Abs(names) == IF names = <<>> THEN <<>> ELSE <<"/", Head(names)>> \o Abs(Tail(names))

\* The real path of such a path: one single-atom component per name.
Real(names) == [i \in 1..Len(names) |-> <<names[i]>>]

Elf(name, sonames, runpaths, rpaths_, libs) ==
    [format |-> "ELF", type |-> "CLASS64", name |-> name, soname |-> sonames,
     runpath |-> runpaths, rpath |-> rpaths_, libraries |-> libs, id_dylib |-> <<>>,
     is_dll |-> FALSE]

Elf32(name, sonames, runpaths, rpaths_, libs) ==
    [Elf(name, sonames, runpaths, rpaths_, libs) EXCEPT !.type = "CLASS32"]

Macho(name, ids, rpaths_, libs) ==
    [format |-> "MACHO", type |-> "NA", name |-> name, soname |-> <<>>,
     runpath |-> <<>>, rpath |-> rpaths_, libraries |-> libs, id_dylib |-> ids,
     is_dll |-> FALSE]

Pe(name, dll, libs) ==
    [format |-> "PE", type |-> "NA", name |-> name, soname |-> <<>>,
     runpath |-> <<>>, rpath |-> <<>>, libraries |-> libs, id_dylib |-> <<>>,
     is_dll |-> dll]

\* Generated graphs: ELF file i is /g/<i> and names, by absolute path, up to two
\* of the files after it and the root.
GName(i) == <<"g", ToString(i)>>

Targets(i) == ({i + 1, i + 2} \cap (1..NumFiles)) \cup {1}

RefLists(i) ==
    {<<>>} \cup {<<Abs(GName(t))>> : t \in Targets(i)}
    \cup {<<Abs(GName(tu[1])), Abs(GName(tu[2]))>> :
             tu \in {x \in Targets(i) \X Targets(i) : x[1] # x[2]}}

RECURSIVE Graphs(_)
Graphs(n) ==
    IF n = 0 THEN {<<>>}
    ELSE {Append(g, r) : g \in Graphs(n - 1), r \in RefLists(n)}

GraphFiles(g) ==
    [p \in {Real(GName(i)) : i \in 1..NumFiles} |->
        LET i == CHOOSE k \in 1..NumFiles : Real(GName(k)) = p
        IN  Elf(<<ToString(i)>>, <<>>, <<>>, <<>>, g[i])]

\* Mach-O: the root has LC_RPATH @loader_path/../lib/ and finds libA through it;
\* libA has the install name @rpath/libA.dylib.
MachoRootFiles ==
    (Real(<<"p", "bin", "app">>) :>
        Macho(<<"app">>, <<>>, << <<"@loader_path", "/", "..", "/", "lib", "/">> >>,
              << <<"@rpath", "/", "libA.dylib">>, <<"@rpath", "/", "libgone.dylib">>,
                 <<"@executable_path", "/", "libE.dylib">>, <<"libbare.dylib">> >>))
    @@ (Real(<<"p", "lib", "libA.dylib">>) :>
        Macho(<<"libA.dylib">>, << <<"@rpath", "/", "libA.dylib">> >>,
              << <<"@loader_path">> >>,
              << <<"@rpath", "/", "libA.dylib">>, <<"/", "usr", "/", "lib", "/", "libSystem.dylib">> >>))
    @@ (Real(<<"p", "bin", "libE.dylib">>) :> Macho(<<"libE.dylib">>, <<>>, <<>>, <<>>))

\* Mach-O: the root names libA by @loader_path; libA, two directories away, has
\* LC_RPATH @loader_path/../lib and names @rpath/libfoo.dylib, which lies in
\* /p/lib/lib, the directory that LC_RPATH means for libA.
MachoDeepFiles ==
    (Real(<<"p", "bin", "app">>) :>
        Macho(<<"app">>, <<>>, <<>>,
              << <<"@loader_path", "/", "..", "/", "lib", "/", "deep", "/", "libA.dylib">> >>))
    @@ (Real(<<"p", "lib", "deep", "libA.dylib">>) :>
        Macho(<<"libA.dylib">>, <<>>, << <<"@loader_path", "/", "..", "/", "lib">> >>,
              << <<"@rpath", "/", "libfoo.dylib">> >>))
    @@ (Real(<<"p", "lib", "lib", "libfoo.dylib">>) :>
        Macho(<<"libfoo.dylib">>, <<>>, <<>>, <<>>))

\* ELF: RUNPATH=[/opt/run] and RPATH=[/opt/old]; libx is under the one, liby
\* under the other, libz under the default path /usr/lib64.
ElfRunpathFiles ==
    (Real(<<"e", "bin", "app">>) :>
        Elf(<<"app">>, <<>>, << <<"/", "opt", "/", "run">> >>, << <<"/", "opt", "/", "old">> >>,
            << <<"libx.so">>, <<"liby.so">>, <<"libz.so">> >>))
    @@ (Real(<<"opt", "run", "libx.so">>) :>
        Elf(<<"libx.so">>, << <<"libx.so">> >>, << <<"$ORIGIN", "/", "..", "/", "old">> >>, <<>>,
            << <<"liby.so">> >>))
    @@ (Real(<<"opt", "old", "liby.so">>) :> Elf(<<"liby.so">>, << <<"liby.so">> >>, <<>>, <<>>, <<>>))
    @@ (Real(<<"usr", "lib64", "libz.so">>) :> Elf(<<"libz.so">>, << <<"libz.so">> >>, <<>>, <<>>, <<>>))

\* ELF: only RPATH, with $ORIGIN and two colon-separated directories; two
\* files carry the same SONAME.
ElfRpathFiles ==
    (Real(<<"e", "bin", "app">>) :>
        Elf32(<<"app">>, <<>>, <<>>,
              << <<"$ORIGIN", "/", "..", "/", "lib", ":", "/", "opt", "/", "old">> >>,
              << <<"libx.so">>, <<"liby.so">> >>))
    @@ (Real(<<"e", "lib", "libx.so">>) :>
        Elf32(<<"libx.so.1">>, << <<"libsame.so">> >>, <<>>, <<>>, << <<"libgone.so">> >>))
    @@ (Real(<<"opt", "old", "liby.so">>) :>
        Elf32(<<"liby.so.1">>, << <<"libsame.so">> >>, <<>>, <<>>, << <<"libx.so">> >>))

\* ELF: a library that names itself, found through its own RPATH.
ElfSelfFiles ==
    (Real(<<"s", "libself.so">>) :>
        Elf(<<"libself.so">>, <<>>, <<>>, << <<"/", "s">> >>,
            << <<"libself.so">>, <<"libz.so">> >>))
    @@ (Real(<<"s", "libz.so">>) :> Elf(<<"libz.so">>, <<>>, <<>>, <<>>, <<>>))

\* ELF: a reference resolves to a file the parser cannot parse.
ElfJunkFiles ==
    (Real(<<"u", "app">>) :>
        Elf(<<"app">>, <<>>, <<>>, << <<"/", "u">> >>, << <<"junk.so">> >>))
    @@ (Real(<<"u", "junk.so">>) :> NoBinary)

\* PE: a DLL as the root; b.dll lies under <sysroot>/System32/Wbem for the
\* sysroot /win, c.dll beside the root.
PeDllFiles ==
    (Real(<<"d", "a.dll">>) :> Pe(<<"a.dll">>, TRUE, << <<"b.dll">>, <<"c.dll">> >>))
    @@ (Real(<<"win", "System32", "Wbem", "b.dll">>) :> Pe(<<"b.dll">>, TRUE, << <<"c.dll">> >>))
    @@ (Real(<<"d", "c.dll">>) :> Pe(<<"c.dll">>, TRUE, <<>>))

\* PE: an executable as the root, its DLLs beside it and in the environment.
PeExeFiles ==
    (Real(<<"d", "app.exe">>) :> Pe(<<"app.exe">>, FALSE, << <<"b.dll">>, <<"e.dll">> >>))
    @@ (Real(<<"d", "b.dll">>) :> Pe(<<"b.dll">>, TRUE, << <<"c.dll">> >>))
    @@ (Real(<<"d", "c.dll">>) :> Pe(<<"c.dll">>, TRUE, <<>>))
    @@ (Real(<<"env", "Library", "bin", "e.dll">>) :> Pe(<<"e.dll">>, TRUE, << <<"b.dll">> >>))

\* The hand-written filesystems with their root artifacts; the last root does
\* not exist.
Catalog ==
    { <<MachoRootFiles, Abs(<<"p", "bin", "app">>)>>,
      <<MachoDeepFiles, Abs(<<"p", "bin", "app">>)>>,
      <<ElfRunpathFiles, Abs(<<"e", "bin", "app">>)>>,
      <<ElfRpathFiles, Abs(<<"e", "bin", "app">>)>>,
      <<ElfSelfFiles, Abs(<<"s", "libself.so">>)>>,
      <<ElfJunkFiles, Abs(<<"u", "app">>)>>,
      <<PeDllFiles, Abs(<<"d", "a.dll">>)>>,
      <<PeDllFiles, Abs(<<"win", "System32", "Wbem", "b.dll">>)>>,
      <<PeExeFiles, Abs(<<"d", "app.exe">>)>>,
      <<PeExeFiles, Abs(<<"d", "gone.exe">>)>> }

Sysroots == {<<>>, <<"/", "win">>, <<"/", "win", "/">>}

Envroots == {<<>>, <<"/", "env">>}

----------------------------------------------------------------------------
(* The state machine of a call of inspect_linkages_lief *)

\* The arguments and the locals of the call in the current state.
CurArgs == Args(files, filename, resolve_filenames, recurse, sysroot, envroot)

CurLocals ==
    [pc |-> pc, exedir |-> exedir, default_paths |-> default_paths, todo |-> todo,
     it |-> it, already_seen |-> already_seen, results |-> results,
     rpaths_by_binary |-> rpaths_by_binary, parents_by_filename |-> parents_by_filename,
     tmp_filename |-> tmp_filename, error |-> error, enqueued |-> enqueued,
     popped |-> popped, examined |-> examined, processed |-> processed]

SetLocals(w) ==
    /\ pc' = w.pc
    /\ exedir' = w.exedir
    /\ default_paths' = w.default_paths
    /\ todo' = w.todo
    /\ it' = w.it
    /\ already_seen' = w.already_seen
    /\ results' = w.results
    /\ rpaths_by_binary' = w.rpaths_by_binary
    /\ parents_by_filename' = w.parents_by_filename
    /\ tmp_filename' = w.tmp_filename
    /\ error' = w.error
    /\ enqueued' = w.enqueued
    /\ popped' = w.popped
    /\ examined' = w.examined
    /\ processed' = w.processed
    /\ UNCHANGED <<files, filename, resolve_filenames, recurse, sysroot, envroot, call>>
    /\ UNCHANGED memovars

NoCall == [fn |-> "", done |-> FALSE, args |-> <<>>, value |-> <<>>]

SetArgs(a) ==
    /\ files = a.files
    /\ filename = a.filename
    /\ resolve_filenames = a.resolve_filenames
    /\ recurse = a.recurse
    /\ sysroot = a.sysroot
    /\ envroot = a.envroot

\* No thread is inside a memoized function.
NoMemo ==
    /\ decorator = ""
    /\ cache = <<>>
    /\ lock = 0
    /\ callers = <<>>
    /\ computed = <<>>

\* A call of inspect_linkages_lief about to run its body.
InitWalk ==
    /\ NoMemo
    /\ \/ \E g \in Graphs(NumFiles), rf \in BOOLEAN, rc \in BOOLEAN :
             SetArgs(Args(GraphFiles(g), Abs(GName(1)), rf, rc, <<>>, <<>>))
       \/ \E c \in Catalog, rf \in BOOLEAN, rc \in BOOLEAN, sr \in Sysroots, er \in Envroots :
             SetArgs(Args(c[1], c[2], rf, rc, sr, er))
    /\ pc = NoLocals.pc
    /\ exedir = NoLocals.exedir
    /\ default_paths = NoLocals.default_paths
    /\ todo = NoLocals.todo
    /\ it = NoLocals.it
    /\ already_seen = NoLocals.already_seen
    /\ results = NoLocals.results
    /\ rpaths_by_binary = NoLocals.rpaths_by_binary
    /\ parents_by_filename = NoLocals.parents_by_filename
    /\ tmp_filename = NoLocals.tmp_filename
    /\ error = NoLocals.error
    /\ enqueued = NoLocals.enqueued
    /\ popped = NoLocals.popped
    /\ examined = NoLocals.examined
    /\ processed = NoLocals.processed

Init == InitWalk /\ call = NoCall

\* Lines 338-356.
Enter ==
    /\ pc = "call"
    /\ \E w \in {Begin(CurArgs)} : SetLocals(w)

\* Line 357, `while todo:` with work left: a new `for element in todo`.
WhileEnter ==
    /\ pc = "while"
    /\ todo # <<>>
    /\ \E w \in {WalkStep(CurArgs, CurLocals)} : SetLocals(w)

\* Lines 358-408: the iterator has an element; one turn of the for loop.
ForNext ==
    /\ pc = "for"
    /\ it < Len(todo)
    /\ \E w \in {ForBody(CurArgs, CurLocals)} : SetLocals(w)

\* Line 358: the iterator is exhausted; back to `while todo`.
ForEnd ==
    /\ pc = "for"
    /\ it >= Len(todo)
    /\ \E w \in {WalkStep(CurArgs, CurLocals)} : SetLocals(w)

\* Lines 357 and 409: `while todo:` with nothing left; return results.
Return ==
    /\ pc = "while"
    /\ todo = <<>>
    /\ \E w \in {WalkStep(CurArgs, CurLocals)} : SetLocals(w)

\* Lines 367-370 and 382-384 on a chain of parents that comes back to itself:
\* one more turn of the loop, which never finds None.
AncestorLoop ==
    /\ pc = "ancestors"
    /\ \E w \in {[CurLocals EXCEPT !.tmp_filename = parents_by_filename[tmp_filename]]} :
          SetLocals(w)

Next == Enter \/ WhileEnter \/ ForNext \/ ForEnd \/ Return \/ AncestorLoop

Spec == Init /\ [][Next]_vars

----------------------------------------------------------------------------
(* Direct calls of the helpers get_rpaths and _get_resolved_location *)

\* The most entries of one kind (RUNPATH, RPATH, LC_RPATH) in a binary.
MaxEntries == 2

\* The most directories in the search-path stack handed to the resolver.
MaxPaths == 2

\* The sequences over S of length at most n.
RECURSIVE SeqsUpTo(_, _)
SeqsUpTo(S, n) ==
    IF n = 0 THEN {<<>>}
    ELSE LET shorter == SeqsUpTo(S, n - 1)
         IN  shorter \cup {Append(q, x) : q \in {r \in shorter : Len(r) = n - 1}, x \in S}

\* Values of RUNPATH and RPATH entries: colon-separated directories.
ElfEntries ==
    { <<"/", "opt", "/", "run">>,
      <<"/", "opt", "/", "old">>,
      <<"$ORIGIN", "/", "..", "/", "lib", ":", "/", "usr", "/", "$LIB">>,
      <<>> }

\* Values of LC_RPATH commands.
MachoEntries ==
    { <<"@loader_path", "/", "..", "/", "lib", "/">>,
      <<"@executable_path", "/", "Frameworks">>,
      <<"/", "opt", "/", "run">> }

\* The binaries get_rpaths is called on.
RpathBinaries ==
    {[Elf(<<"b">>, <<>>, run, old, <<>>) EXCEPT !.type = t] :
        run \in SeqsUpTo(ElfEntries, MaxEntries), old \in SeqsUpTo(ElfEntries, MaxEntries),
        t \in {"CLASS32", "CLASS64"}}
    \cup {Macho(<<"b">>, <<>>, rp, <<>>) : rp \in SeqsUpTo(MachoEntries, MaxEntries)}
    \cup {Pe(<<"b">>, dll, <<>>) : dll \in BOOLEAN}
    \cup {NoBinary}

ExeDirnames == {None, <<"/", "d">>, <<"C:", "\\", "d">>}

\* The filesystem of the direct calls of the resolver.
FnFiles ==
    (Real(<<"opt", "run", "libx.so">>) :> Elf(<<"libx.so">>, <<>>, <<>>, <<>>, <<>>))
    @@ (Real(<<"opt", "old", "libx.so">>) :> Elf(<<"libx.so">>, <<>>, <<>>, <<>>, <<>>))
    @@ (Real(<<"opt", "old", "liby.so">>) :> Elf(<<"liby.so">>, <<>>, <<>>, <<>>, <<>>))
    @@ (Real(<<"win", "lib", "libx.so">>) :> Elf(<<"libx.so">>, <<>>, <<>>, <<>>, <<>>))
    @@ (Real(<<"d", "bin", "libs.so">>) :> Elf(<<"libs.so">>, <<>>, <<>>, <<>>, <<>>))
    @@ (Real(<<"w", "lib", "libw.so">>) :> Elf(<<"libw.so">>, <<>>, <<>>, <<>>, <<>>))

\* The references the resolver is called on.
Unresolveds ==
    { <<"$RPATH", "/", "libx.so">>,
      <<"$RPATH", "/", "liby.so">>,
      <<"$RPATH", "/", "libw.so">>,
      <<"$RPATH", "/", "libgone.so">>,
      <<"$SELFDIR", "/", "libs.so">>,
      <<"$EXEDIR", "/", "..", "/", "libgone.so">>,
      <<"/", "opt", "/", "run", "/", "libx.so">>,
      <<"/", "opt", "/", "run", "/", "libgone.so">>,
      <<"/", "opt", "/", "$EXEDIR", "/", "libx.so">>,
      <<"libs.so">>,
      <<"sub", "/", "libgone.so">> }

SearchDirs ==
    { <<"/", "opt", "/", "run">>, <<"/", "opt", "/", "old">>, <<"$SELFDIR", "/", "..", "/", "lib">> }

LdLibraryPaths == { <<>>, <<"/", "opt", "/", "old">>, <<"/", "nodir", ":", "/", "opt", "/", "run">> }

DefaultPathLists == { <<>>, DefaultPaths(Elf32(<<"b">>, <<>>, <<>>, <<>>, <<>>)) }

Dirs == { <<>>, <<"/", "d", "/", "bin">> }

ForcedRpaths == { None, <<"/", "forced">> }

\* A call of get_rpaths(binary, exe_dirname, envroot, windows_root) to be made.
\* The last three arguments are read for PE only; the other formats are called
\* with one choice of them.
RpathCalls ==
    {[fn |-> "get_rpaths", done |-> FALSE, value |-> <<>>,
      args |-> [binary |-> c[1], exe_dirname |-> c[2], envroot |-> c[3],
                windows_root |-> c[4]]] :
        c \in {x \in RpathBinaries \X ExeDirnames \X Envroots \X Sysroots :
                 x[1].format # "PE" => x[2] = None /\ x[3] = <<>> /\ x[4] = <<>>}}

\* A call of _get_resolved_location to be made.
ResolveCalls ==
    {[fn |-> "_get_resolved_location", done |-> FALSE, value |-> <<>>,
      args |-> [unresolved |-> c[1], exedir |-> c[2], selfdir |-> c[3],
                rpaths_transitive |-> c[4], LD_LIBRARY_PATH |-> c[5],
                default_paths |-> c[6], sysroot |-> c[7], resolved_rpath |-> c[8]]] :
        c \in Unresolveds \X (Dirs \ {<<>>}) \X Dirs \X SeqsUpTo(SearchDirs, MaxPaths)
              \X LdLibraryPaths \X DefaultPathLists \X Sysroots \X ForcedRpaths}

\* The walker is not running while the helpers are called directly.
InitFn ==
    /\ NoMemo
    /\ SetArgs(Args(FnFiles, <<>>, TRUE, TRUE, <<>>, <<>>))
    /\ pc = "idle"
    /\ exedir = NoLocals.exedir
    /\ default_paths = NoLocals.default_paths
    /\ todo = NoLocals.todo
    /\ it = NoLocals.it
    /\ already_seen = NoLocals.already_seen
    /\ results = NoLocals.results
    /\ rpaths_by_binary = NoLocals.rpaths_by_binary
    /\ parents_by_filename = NoLocals.parents_by_filename
    /\ tmp_filename = NoLocals.tmp_filename
    /\ error = NoLocals.error
    /\ enqueued = NoLocals.enqueued
    /\ popped = NoLocals.popped
    /\ examined = NoLocals.examined
    /\ processed = NoLocals.processed
    /\ \/ call \in RpathCalls
       \/ call \in ResolveCalls

\* get_rpaths is called and returns.
CallGetRpaths ==
    /\ pc = "idle"
    /\ call.fn = "get_rpaths"
    /\ ~call.done
    /\ call' = [call EXCEPT
                  !.done = TRUE,
                  !.value = get_rpaths(call.args.binary, call.args.exe_dirname,
                                       call.args.envroot, call.args.windows_root)]
    /\ UNCHANGED <<walkvars, memovars>>

\* _get_resolved_location is called and returns.
CallGetResolvedLocation ==
    /\ pc = "idle"
    /\ call.fn = "_get_resolved_location"
    /\ ~call.done
    /\ call' = [call EXCEPT
                  !.done = TRUE,
                  !.value = _get_resolved_location(files, call.args.unresolved,
                               call.args.exedir, call.args.selfdir,
                               call.args.rpaths_transitive, call.args.LD_LIBRARY_PATH,
                               call.args.default_paths, call.args.sysroot,
                               call.args.resolved_rpath)]
    /\ UNCHANGED <<walkvars, memovars>>

NextFn == CallGetRpaths \/ CallGetResolvedLocation

SpecFn == InitFn /\ [][NextFn]_vars

----------------------------------------------------------------------------
(* get_linkages *)

\* What inspect_linkages_pyldd may return to get_linkages for a walk that
\* returned r: the same set, nothing, or one path more.
PylddResults(r) == {r, {}, r \cup {Abs(<<"pyldd", "only.so">>)}}

\* Lines 421-422: whether the warning is printed.
Disagreement(fs, fname, result_lief, result_pyldd) ==
    result_lief # result_pyldd /\ codefile_type(fs, fname) \notin {"DLLfile", "EXEfile"}

\* A variant of LinkagesValue that keeps what both engines agree on.
LinkagesValueCommon(result_lief, result_pyldd) == result_lief \cap result_pyldd

\* Line 425: the value of get_linkages.
LinkagesValue(result_lief, result_pyldd) == result_lief

\* get_linkages has been called and calls inspect_linkages_lief, lines 416-417.
InitLinkages ==
    /\ InitWalk
    /\ call = [fn |-> "get_linkages", done |-> FALSE, args |-> [at |-> 416], value |-> <<>>]

\* Lines 418-419: inspect_linkages_lief has returned; inspect_linkages_pyldd
\* runs and returns.
PylddReturns ==
    /\ pc = "returned"
    /\ call.fn = "get_linkages"
    /\ call.args.at = 416
    /\ \E r \in PylddResults(results) :
          call' = [call EXCEPT !.args = [at |-> 421, result_lief |-> results,
                                         result_pyldd |-> r]]
    /\ UNCHANGED <<walkvars, memovars>>

\* Lines 421-425: the comparison, the warning and the return.
LinkagesReturn ==
    /\ call.fn = "get_linkages"
    /\ call.args.at = 421
    /\ ~call.done
    /\ call' = [call EXCEPT
                  !.done = TRUE,
                  !.value = [warned |-> Disagreement(files, filename, call.args.result_lief,
                                                     call.args.result_pyldd),
                             result |-> LinkagesValue(call.args.result_lief,
                                                      call.args.result_pyldd)]]
    /\ UNCHANGED <<walkvars, memovars>>

NextLinkages == Next \/ PylddReturns \/ LinkagesReturn

SpecLinkages == InitLinkages /\ [][NextLinkages]_vars

----------------------------------------------------------------------------
(* memoized_by_arg0_inode and memoized_by_arg0_filehash *)

\* The number of threads that call one memoized function.
NumThreads == 2

Threads == 1..NumThreads

\* The files the memoized function is called on: b has the bytes of a under
\* another inode, h is a hard link to a, c lies on another device and has the
\* inode number of a there.
MemoDisk ==
    ("/m/a" :> [st_dev |-> 1, st_ino |-> 7, bytes |-> "X"])
    @@ ("/m/b" :> [st_dev |-> 1, st_ino |-> 8, bytes |-> "X"])
    @@ ("/m/h" :> [st_dev |-> 1, st_ino |-> 7, bytes |-> "X"])
    @@ ("/n/c" :> [st_dev |-> 2, st_ino |-> 7, bytes |-> "Y"])

\* The second positional argument: two strings and a dict, which is not hashable.
MemoArchs == {"native", "arm64", "{}"}

\* isinstance(arg, Hashable), lines 551 and 589.
IsHashable(arg) == arg # "{}"

\* hashlib.sha1 of the file's bytes, lines 584-591: equal bytes, equal digest.
Sha1(bytes) == <<"sha1", bytes>>

\* Lines 545-547 and 583-591: what stands for args[0] in the key.
Arg0Key(dec, path) ==
    IF dec = "inode" THEN MemoDisk[path].st_ino ELSE Sha1(MemoDisk[path].bytes)

\* Lines 557-558 and 599-600: the cache key of a call without keyword arguments.
CacheKey(dec, path, arch) == <<Arg0Key(dec, path), arch>>

\* self.func(*args, **kw): the wrapped function reads the file it is given.
WrappedValue(path, arch) == [of |-> MemoDisk[path].bytes, arch |-> arch]

NoCaller == [pc |-> "idle", path |-> "", arch |-> "", key |-> <<>>, value |-> <<>>]

\* The walker is not running while the memoized function is called.
InitMemo ==
    /\ SetArgs(Args(<<>>, <<>>, TRUE, TRUE, <<>>, <<>>))
    /\ pc = "idle"
    /\ exedir = NoLocals.exedir
    /\ default_paths = NoLocals.default_paths
    /\ todo = NoLocals.todo
    /\ it = NoLocals.it
    /\ already_seen = NoLocals.already_seen
    /\ results = NoLocals.results
    /\ rpaths_by_binary = NoLocals.rpaths_by_binary
    /\ parents_by_filename = NoLocals.parents_by_filename
    /\ tmp_filename = NoLocals.tmp_filename
    /\ error = NoLocals.error
    /\ enqueued = NoLocals.enqueued
    /\ popped = NoLocals.popped
    /\ examined = NoLocals.examined
    /\ processed = NoLocals.processed
    /\ call = NoCall
    /\ decorator \in {"inode", "filehash"}
    /\ cache = <<>>
    /\ lock = 0
    /\ callers = [t \in Threads |-> NoCaller]
    /\ computed = <<>>

\* Lines 542 and 580: thread t calls the memoized function.
MemoCall(t) ==
    /\ callers[t].pc = "idle"
    /\ \E path \in DOMAIN MemoDisk, arch \in MemoArchs :
          callers' = [callers EXCEPT ![t] = [@ EXCEPT !.pc = "args", !.path = path,
                                                      !.arch = arch]]
    /\ UNCHANGED <<walkvars, call, decorator, cache, lock, computed>>

\* Lines 543-558 and 581-600: the key is built, outside the lock; with an
\* argument that is not hashable the function is called at once, uncached.
MemoKey(t) ==
    /\ callers[t].pc = "args"
    /\ IF IsHashable(callers[t].arch)
       THEN /\ callers' = [callers EXCEPT ![t] =
                             [@ EXCEPT !.pc = "lock",
                                       !.key = CacheKey(decorator, callers[t].path,
                                                          callers[t].arch)]]
            /\ UNCHANGED computed
       ELSE /\ callers' = [callers EXCEPT ![t] = [@ EXCEPT !.pc = "bare"]]
            /\ computed' = Append(computed, [thread |-> t, cached |-> FALSE,
                                             key |-> <<>>])
    /\ UNCHANGED <<walkvars, call, decorator, cache, lock>>

\* A variant of LockFree for a lock that never blocks.
LockNeverHeld(l) == TRUE

\* threading.Lock: whether `with self.lock` can enter.
LockFree(l) == l = 0

\* Lines 559 and 601: `with self.lock`.
MemoAcquire(t) ==
    /\ callers[t].pc = "lock"
    /\ LockFree(lock)
    /\ lock' = t
    /\ callers' = [callers EXCEPT ![t] = [@ EXCEPT !.pc = "locked"]]
    /\ UNCHANGED <<walkvars, call, decorator, cache, computed>>

\* Lines 560-561 and 602-603: the key is in the cache.
MemoHit(t) ==
    /\ callers[t].pc = "locked"
    /\ callers[t].key \in DOMAIN cache
    /\ callers' = [callers EXCEPT ![t] = [@ EXCEPT !.pc = "done", !.value = cache[callers[t].key]]]
    /\ lock' = 0
    /\ UNCHANGED <<walkvars, call, decorator, cache, computed>>

\* Lines 562-563 and 604-605: the key is not in the cache; self.func is called.
MemoMiss(t) ==
    /\ callers[t].pc = "locked"
    /\ callers[t].key \notin DOMAIN cache
    /\ callers' = [callers EXCEPT ![t] = [@ EXCEPT !.pc = "func"]]
    /\ computed' = Append(computed, [thread |-> t, cached |-> TRUE, key |-> callers[t].key])
    /\ UNCHANGED <<walkvars, call, decorator, cache, lock>>

\* Lines 563-565 and 605-607: self.func returns; the value is stored and returned.
MemoStore(t) ==
    /\ callers[t].pc = "func"
    /\ \E value \in {WrappedValue(callers[t].path, callers[t].arch)} :
          /\ cache' = (callers[t].key :> value) @@ cache
          /\ callers' = [callers EXCEPT ![t] = [@ EXCEPT !.pc = "done", !.value = value]]
    /\ lock' = 0
    /\ UNCHANGED <<walkvars, call, decorator, computed>>

\* Lines 554 and 592: self.func returns to a call that is not cached.
MemoBareReturn(t) ==
    /\ callers[t].pc = "bare"
    /\ callers' = [callers EXCEPT ![t] =
                      [@ EXCEPT !.pc = "done",
                                !.value = WrappedValue(callers[t].path, callers[t].arch)]]
    /\ UNCHANGED <<walkvars, call, decorator, cache, lock, computed>>

NextMemo ==
    \E t \in Threads :
        \/ MemoCall(t)
        \/ MemoKey(t)
        \/ MemoAcquire(t)
        \/ MemoHit(t)
        \/ MemoMiss(t)
        \/ MemoStore(t)
        \/ MemoBareReturn(t)

SpecMemo == InitMemo /\ [][NextMemo]_vars

----------------------------------------------------------------------------
(* get_linkages_memoized, wrapped by memoized_by_arg0_filehash *)

\* A program with RUNPATH $ORIGIN that needs libx.so, copied byte for byte
\* into a second directory; each directory has its own libx.so. Of these
\* files, the ones with equal records have equal bytes.
CopiedFiles ==
    (Real(<<"a", "app">>) :>
        Elf(<<"app">>, <<>>, << <<"$ORIGIN">> >>, <<>>, << <<"libx.so">> >>))
    @@ (Real(<<"b", "app">>) :>
        Elf(<<"app">>, <<>>, << <<"$ORIGIN">> >>, <<>>, << <<"libx.so">> >>))
    @@ (Real(<<"a", "libx.so">>) :> Elf(<<"libx.so">>, <<>>, <<>>, <<>>, <<>>))
    @@ (Real(<<"b", "libx.so">>) :> Elf(<<"libx.so">>, <<>>, <<>>, <<>>, <<>>))

\* The files get_linkages_memoized is called on.
CopiedRoots == {Abs(<<"a", "app">>), Abs(<<"b", "app">>)}

\* Lines 583-591: the digest of the bytes read from the file.
FileDigest(fs, path) == Sha1(fs[RealPath(fs, path)])

\* Lines 581-600: the key of get_linkages_memoized(filename, resolve_filenames,
\* recurse), all arguments positional and hashable.
LinkagesKey(fs, path, rf, rc) == <<FileDigest(fs, path), rf, rc>>

\* Lines 416-425: what get_linkages gives for a walk that has ended as w: the
\* walk's exception or, line 425, the walk's set.
LinkagesOutcome(w) ==
    [pc |-> w.pc, error |-> w.error,
     result |-> IF w.pc = "returned" THEN LinkagesValue(w.results, w.results) ELSE {}]

\* Lines 634-635: get_linkages run on the arguments, sysroot and envroot at
\* their defaults; how it ended and the set it returned.
get_linkages(fs, path, rf, rc) ==
    CHOOSE r \in {LinkagesOutcome(w) : w \in {Run(Args(fs, path, rf, rc, <<>>, <<>>), NoLocals)}} : TRUE

NoLinkagesCaller ==
    [pc |-> "idle", path |-> <<>>, resolve_filenames |-> FALSE, recurse |-> FALSE,
     key |-> <<>>, value |-> {}, error |-> ""]

\* The walker itself is not a process of this machine: the wrapped function
\* runs to its end inside the step that calls it.
InitLinkagesMemo ==
    /\ SetArgs(Args(CopiedFiles, <<>>, TRUE, TRUE, <<>>, <<>>))
    /\ pc = "idle"
    /\ exedir = NoLocals.exedir
    /\ default_paths = NoLocals.default_paths
    /\ todo = NoLocals.todo
    /\ it = NoLocals.it
    /\ already_seen = NoLocals.already_seen
    /\ results = NoLocals.results
    /\ rpaths_by_binary = NoLocals.rpaths_by_binary
    /\ parents_by_filename = NoLocals.parents_by_filename
    /\ tmp_filename = NoLocals.tmp_filename
    /\ error = NoLocals.error
    /\ enqueued = NoLocals.enqueued
    /\ popped = NoLocals.popped
    /\ examined = NoLocals.examined
    /\ processed = NoLocals.processed
    /\ call = NoCall
    /\ decorator = "filehash"
    /\ cache = <<>>
    /\ lock = 0
    /\ callers = [t \in Threads |-> NoLinkagesCaller]
    /\ computed = <<>>

\* Lines 580-600: thread t calls get_linkages_memoized; the file is read and
\* the key is built, outside the lock.
LinkagesMemoCall(t) ==
    /\ callers[t].pc = "idle"
    /\ \E path \in CopiedRoots, rf \in BOOLEAN, rc \in BOOLEAN :
          callers' = [callers EXCEPT ![t] =
                        [NoLinkagesCaller EXCEPT
                           !.pc = "lock", !.path = path, !.resolve_filenames = rf,
                           !.recurse = rc, !.key = LinkagesKey(files, path, rf, rc)]]
    /\ UNCHANGED <<walkvars, call, decorator, cache, lock, computed>>

\* Line 601: `with self.lock`.
LinkagesMemoAcquire(t) ==
    /\ callers[t].pc = "lock"
    /\ LockFree(lock)
    /\ lock' = t
    /\ callers' = [callers EXCEPT ![t] = [@ EXCEPT !.pc = "locked"]]
    /\ UNCHANGED <<walkvars, call, decorator, cache, computed>>

\* Lines 602-603: the key is in the cache; the cached value is returned.
LinkagesMemoHit(t) ==
    /\ callers[t].pc = "locked"
    /\ callers[t].key \in DOMAIN cache
    /\ callers' = [callers EXCEPT ![t] = [@ EXCEPT !.pc = "done",
                                                   !.value = cache[callers[t].key]]]
    /\ lock' = 0
    /\ UNCHANGED <<walkvars, call, decorator, cache, computed>>

\* Lines 604-607: the key is not in the cache; get_linkages runs and returns,
\* and its value is stored and returned.
LinkagesMemoStore(t) ==
    /\ callers[t].pc = "locked"
    /\ callers[t].key \notin DOMAIN cache
    /\ \E r \in {get_linkages(files, callers[t].path, callers[t].resolve_filenames,
                              callers[t].recurse)} :
          /\ r.pc = "returned"
          /\ cache' = (callers[t].key :> r.result) @@ cache
          /\ callers' = [callers EXCEPT ![t] = [@ EXCEPT !.pc = "done", !.value = r.result]]
    /\ computed' = Append(computed, [thread |-> t, cached |-> TRUE, key |-> callers[t].key])
    /\ lock' = 0
    /\ UNCHANGED <<walkvars, call, decorator>>

\* Lines 601 and 605: get_linkages raises; the `with` block releases the lock,
\* nothing is stored, and the exception leaves get_linkages_memoized.
LinkagesMemoRaise(t) ==
    /\ callers[t].pc = "locked"
    /\ callers[t].key \notin DOMAIN cache
    /\ \E r \in {get_linkages(files, callers[t].path, callers[t].resolve_filenames,
                              callers[t].recurse)} :
          /\ r.pc = "raised"
          /\ callers' = [callers EXCEPT ![t] = [@ EXCEPT !.pc = "raised", !.error = r.error]]
    /\ computed' = Append(computed, [thread |-> t, cached |-> TRUE, key |-> callers[t].key])
    /\ lock' = 0
    /\ UNCHANGED <<walkvars, call, decorator, cache>>

NextLinkagesMemo ==
    \E t \in Threads :
        \/ LinkagesMemoCall(t)
        \/ LinkagesMemoAcquire(t)
        \/ LinkagesMemoHit(t)
        \/ LinkagesMemoStore(t)
        \/ LinkagesMemoRaise(t)

SpecLinkagesMemo == InitLinkagesMemo /\ [][NextLinkagesMemo]_vars

----------------------------------------------------------------------------
(* Claims *)

\* The files the walk has reached: the root and every resolved reference that
\* exists on disk, which are the paths put into todo.
Reached == {enqueued[i] : i \in 1..Len(enqueued)}

\* The uniqueness keys whose references have been resolved.
ProcessedKeys == {processed[i].key : i \in 1..Len(processed)}

\* C1: with recurse=True and resolve_filenames=True the returned set is the full
\* transitive closure: every file reached from the root has had the references
\* of its uniqueness key examined, and every reference examined (its resolved
\* path, or the reference itself when unresolved) is in the returned set.
C1_FullClosure ==
    (pc = "returned" /\ recurse /\ resolve_filenames) =>
        /\ \A f \in Reached :
              IsBinary(parse(files, f)) =>
                  get_uniqueness_key(parse(files, f)) \in ProcessedKeys
        /\ \A i \in 1..Len(processed) :
              \A k \in 1..Len(processed[i].locs) : processed[i].locs[k] \in results

\* The root's parsed content, and the filesystem with the root's list of
\* library references replaced.
RootBinary == parse(files, filename)

WithRootLibraries(libs) ==
    [files EXCEPT ![RealPath(files, filename)].libraries = libs]

\* The reorderings of a list.
Reorderings(xs) ==
    {[i \in 1..Len(xs) |-> xs[f[i]]] : f \in Permutations(1..Len(xs))}

\* C2: the returned set is the same for every permutation of the root's own
\* list of library references, all files and options being equal.
C2_OrderInvariant ==
    pc = "returned" =>
        \A libs \in Reorderings(RootBinary.libraries) :
            LET o == Outcome(Args(WithRootLibraries(libs), filename, resolve_filenames,
                                  recurse, sysroot, envroot))
            IN  o.pc = "returned" /\ o.results = results

\* The nodes that the assignment tmp_filename = parents_by_filename[tmp_filename]
\* reaches from t in one or more turns.
RECURSIVE Ancestors(_, _, _)
Ancestors(parents, t, passed) ==
    IF t \notin DOMAIN parents \/ parents[t] \in passed THEN passed
    ELSE Ancestors(parents, parents[t], passed \cup {parents[t]})

\* C3: every walk terminates, reference cycles included.  The ancestor loop
\* changes nothing but tmp_filename, so a walk stops only if that loop is never
\* run on a node that is its own ancestor: from there it comes back to the same
\* state for ever.
C3_NoEndlessAncestorLoop ==
    ~(pc = "ancestors" /\ tmp_filename \in Ancestors(parents_by_filename, tmp_filename, {}))

\* C4: within one walk no uniqueness key has its list of library references
\* processed more than once, however often files with that key are enqueued.
C4_KeyProcessedOnce ==
    \A i \in 1..Len(processed) : \A j \in 1..Len(processed) :
        processed[i].key = processed[j].key => i = j

\* A finished walk over a diamond: two nodes the root names both name a third
\* file, which was put into todo twice and is in the returned set.
C4_Witness ==
    /\ pc = "returned"
    /\ \E b \in 1..Len(processed), c \in 1..Len(processed), d \in 1..Len(processed) :
          /\ b # c /\ d # b /\ d # c
          /\ \E k \in 1..Len(processed[1].locs) : processed[1].locs[k] = processed[b].file
          /\ \E k \in 1..Len(processed[1].locs) : processed[1].locs[k] = processed[c].file
          /\ \E k \in 1..Len(processed[b].locs) : processed[b].locs[k] = processed[d].file
          /\ \E k \in 1..Len(processed[c].locs) : processed[c].locs[k] = processed[d].file
          /\ Cardinality({i \in 1..Len(enqueued) : enqueued[i] = processed[d].file}) >= 2
          /\ processed[d].file \in results

\* The paths put into todo that exist and that the parser cannot parse.
Unparseable == {f \in Reached : exists(files, f) /\ ~IsBinary(parse(files, f))}

\* C5: when a reference resolves to an existing file the parser cannot parse,
\* no exception leaves the walk, and the file's path is in the returned set.
C5_ParseFailureTolerated ==
    (recurse /\ resolve_filenames /\ Unparseable # {}) =>
        /\ pc # "raised"
        /\ pc = "returned" => Unparseable \subseteq results

\* C6: for a root path that does not exist the call returns the empty set and
\* raises nothing.
C6_MissingRootEmpty ==
    ~exists(files, filename) =>
        /\ pc # "raised"
        /\ pc = "returned" => results = {}

\* The branch of _get_resolved_location a reference takes.
RpathBranch(u) == IsPrefix(<<"$RPATH">>, u)

TokenBranch(u) ==
    ~RpathBranch(u) /\ (Contains(u, <<"$SELFDIR">>) \/ Contains(u, <<"$EXEDIR">>))

AbsoluteBranch(u) == ~RpathBranch(u) /\ ~TokenBranch(u) /\ StartsWithSlash(u)

BareBranch(u) == ~RpathBranch(u) /\ ~TokenBranch(u) /\ ~StartsWithSlash(u)

Resolved == call.fn = "_get_resolved_location" /\ call.done

\* C7 as stated: whenever the location returned does not exist on disk, it is
\* the reference verbatim, whichever branch applies.
C7_UnresolvedVerbatim ==
    Resolved =>
        (~exists(files, call.value[1]) => call.value[1] = call.args.unresolved)

\* C7, branch by branch: the reference is returned verbatim when it starts with $RPATH,
\* no rpath is forced and no candidate exists, and when it is absolute without
\* $SELFDIR/$EXEDIR; a reference with $SELFDIR/$EXEDIR is returned with the tokens
\* substituted and a bare relative one joined to selfdir, existing or not.
C7_VerbatimByBranch ==
    Resolved =>
        LET u == call.args.unresolved
            v == call.value[1]
        IN  /\ (RpathBranch(u) /\ ~Truthy(call.args.resolved_rpath) /\ ~exists(files, v))
                  => call.value = <<u, None, "False">>
            /\ AbsoluteBranch(u) => call.value = <<u, None, "False">>
            /\ TokenBranch(u) =>
                  v = Replace(Replace(u, <<"$SELFDIR">>, call.args.selfdir),
                              <<"$EXEDIR">>, call.args.exedir)
            /\ BareBranch(u) => v = join(call.args.selfdir, u)

\* A call on a bare relative reference whose file is missing: the location
\* returned is not the reference.
C7_Witness ==
    /\ Resolved
    /\ BareBranch(call.args.unresolved)
    /\ ~exists(files, call.value[1])
    /\ call.value[1] # call.args.unresolved

\* A call on a $RPATH reference that no candidate directory holds.
C7_WitnessRpath ==
    /\ Resolved
    /\ RpathBranch(call.args.unresolved)
    /\ call.args.rpaths_transitive # <<>>
    /\ ~Truthy(call.args.resolved_rpath)
    /\ call.value = <<call.args.unresolved, None, "False">>

\* C8: a Mach-O node with the one LC_RPATH @loader_path/../lib, at any depth of
\* the walk, has @rpath/<lib> resolved to <directory of the node>/../lib/<lib>
\* when that file exists, and left as $RPATH/<lib> otherwise.
C8_LoaderPathOfHolder ==
    \A i \in 1..Len(processed) :
        LET p == processed[i] IN
        (p.format = "MACHO"
         /\ p.rpaths = << <<"$SELFDIR", "/", "..", "/", "lib">> >>
         /\ p.rpaths_transitive = p.rpaths) =>
            \A k \in 1..Len(p.origs) :
                IsPrefix(<<"$RPATH", "/">>, p.origs[k]) =>
                    LET cand == dirname(p.file) \o <<"/", "..", "/", "lib">>
                                \o Tail(p.origs[k])
                    IN  p.locs[k] = IF exists(files, cand) THEN cand ELSE p.origs[k]

GotRpaths == call.fn = "get_rpaths" /\ call.done

\* The directories of a list of colon-separated entries, with $ORIGIN and $LIB
\* in canonical form.
CanonicalDirs(binary, entries) ==
    LET dirs == SplitAll(entries)
    IN  [i \in 1..Len(dirs) |-> from_os_varnames(binary, dirs[i])]

\* C9: for an ELF binary with at least one RUNPATH entry get_rpaths returns the
\* colon-split RUNPATH directories in declaration order and nothing of RPATH;
\* the RPATH directories are returned only when there is no RUNPATH entry.
C9_RunpathPrecedence ==
    (GotRpaths /\ call.args.binary.format = "ELF") =>
        LET b == call.args.binary IN
        /\ b.runpath # <<>> => call.value = CanonicalDirs(b, b.runpath)
        /\ b.runpath = <<>> => call.value = CanonicalDirs(b, b.rpath)

\* A call on an ELF binary with RUNPATH=[/opt/run] and RPATH=[/opt/old]: only
\* /opt/run is returned, and a bare reference found under /opt/old alone is
\* unresolved with these search paths.
C9_Witness ==
    /\ GotRpaths
    /\ call.args.binary.format = "ELF"
    /\ call.args.binary.runpath = << <<"/", "opt", "/", "run">> >>
    /\ call.args.binary.rpath = << <<"/", "opt", "/", "old">> >>
    /\ call.value = << <<"/", "opt", "/", "run">> >>
    /\ exists(files, <<"/", "opt", "/", "old", "/", "liby.so">>)
    /\ _get_resolved_location(files, <<"$RPATH", "/", "liby.so">>, <<"/", "d">>, <<"/", "d">>,
                              call.value, <<>>, <<>>, <<>>, None)[1]
           = <<"$RPATH", "/", "liby.so">>

\* A PE node none of whose ancestors (itself included) is an executable.
HostUnknown(p) ==
    /\ p.format = "PE"
    /\ \A i \in 1..Len(p.chain) : codefile_type(files, p.chain[i]) # "EXEfile"

\* The candidate directories the default paths give under the sysroot.
DefaultCandidates ==
    {Replace(default_paths[i], <<"$SYSROOT", "/">>, sysroot) : i \in 1..Len(default_paths)}

\* C10 as stated: a PE node with unknown host executable directory has no search
\* paths, and every $RPATH reference of it is unresolved, whatever the sysroot
\* and the files on disk.
C10_UnknownHostUnresolved ==
    \A i \in 1..Len(processed) :
        LET p == processed[i] IN
        HostUnknown(p) =>
            /\ p.rpaths = <<>>
            /\ \A k \in 1..Len(p.origs) :
                  RpathBranch(p.origs[k]) => p.locs[k] = p.origs[k]

\* C10, with the default paths: such a node has no search paths of its own, and a $RPATH
\* reference of it is resolved only under a default path with the sysroot
\* substituted: it is unresolved exactly when no such candidate holds the file.
C10_UnknownHostDefaultsOnly ==
    \A i \in 1..Len(processed) :
        LET p == processed[i] IN
        HostUnknown(p) =>
            /\ p.rpaths = <<>>
            /\ p.rpaths_transitive = <<>>
            /\ \A k \in 1..Len(p.origs) :
                  RpathBranch(p.origs[k]) =>
                      LET hits == {d \in DefaultCandidates :
                                     exists(files, Replace(p.origs[k], <<"$RPATH">>, d))}
                      IN  IF hits = {} THEN p.locs[k] = p.origs[k]
                          ELSE \E d \in hits : p.locs[k] = Replace(p.origs[k], <<"$RPATH">>, d)

\* A PE library as the root, with a reference found under a default path of
\* the sysroot and another found nowhere.
C10_Witness ==
    \E i \in 1..Len(processed) :
        LET p == processed[i] IN
        /\ HostUnknown(p)
        /\ \E k \in 1..Len(p.origs) : RpathBranch(p.origs[k]) /\ p.locs[k] # p.origs[k]
        /\ \E k \in 1..Len(p.origs) : RpathBranch(p.origs[k]) /\ p.locs[k] = p.origs[k]

\* C11, as stated: a reference that starts with "/" is returned unchanged, with
\* no used search path and not in the sysroot, whatever the search paths,
\* LD_LIBRARY_PATH, default paths, sysroot, exedir and selfdir are.
C11_AbsoluteUnchanged ==
    (Resolved /\ StartsWithSlash(call.args.unresolved)) =>
        call.value = <<call.args.unresolved, None, "False">>

\* C11, for references without tokens: a reference that starts with "/" and
\* contains neither $SELFDIR nor $EXEDIR is returned unchanged, with no used
\* search path and not in the sysroot, whatever the other arguments are, and one
\* that contains a token is returned with the token replaced.
C11_AbsoluteWithoutTokenUnchanged ==
    (Resolved /\ StartsWithSlash(call.args.unresolved)) =>
        LET u == call.args.unresolved IN
        IF Contains(u, <<"$SELFDIR">>) \/ Contains(u, <<"$EXEDIR">>)
        THEN call.value[1] = Replace(Replace(u, <<"$SELFDIR">>, call.args.selfdir),
                                     <<"$EXEDIR">>, call.args.exedir)
        ELSE call.value = <<u, None, "False">>

\* A call on /opt/run/libx.so, an existing file under the sysroot, with search
\* paths, LD_LIBRARY_PATH, default paths and a forced rpath all given.
C11_Witness ==
    /\ Resolved
    /\ call.args.unresolved = <<"/", "opt", "/", "run", "/", "libx.so">>
    /\ call.args.rpaths_transitive # <<>>
    /\ call.args.LD_LIBRARY_PATH # <<>>
    /\ call.args.default_paths # <<>>
    /\ call.args.sysroot # <<>>
    /\ Truthy(call.args.resolved_rpath)
    /\ call.value = <<call.args.unresolved, None, "False">>

\* C12: trailing separators of sysroot are stripped before use: a walk returns
\* the same set as the walk over the same files with any other sysroot that
\* differs from it only in trailing "/" or "\" characters.
C12_SysrootTrimmed ==
    pc = "returned" =>
        \A other \in Sysroots :
            _trim_sysroot(other) = _trim_sysroot(sysroot) =>
                LET o == Outcome(Args(files, filename, resolve_filenames, recurse,
                                      other, envroot))
                IN  o.pc = "returned" /\ o.results = results

GotLinkages == call.fn = "get_linkages" /\ call.done

\* C13: get_linkages returns exactly the set inspect_linkages_lief returned,
\* whatever inspect_linkages_pyldd returned, and the warning is printed if and
\* only if the two sets differ and the root is neither a PE executable nor a PE
\* library.
C13_PrimaryResultReturned ==
    GotLinkages =>
        /\ call.value.result = results
        /\ call.value.warned <=>
              (results # call.args.result_pyldd
               /\ ~(IsBinary(RootBinary) /\ RootBinary.format = "PE"))

\* A call on an ELF root whose two engines disagree: the warning is printed and
\* the walker's non-empty set is returned.
C13_Witness ==
    /\ GotLinkages
    /\ RootBinary.format = "ELF"
    /\ call.args.result_pyldd # results
    /\ call.value.warned
    /\ results # {}
    /\ call.value.result = results

\* A call on a PE root whose two engines disagree: no warning.
C13_WitnessPe ==
    /\ GotLinkages
    /\ RootBinary.format = "PE"
    /\ call.args.result_pyldd # results
    /\ ~call.value.warned

\* The threads inside self.func, and the calls of self.func made for a key.
InFunc == {t \in Threads : callers[t].pc \in {"func", "bare"}}

ComputedFor(key) == {i \in 1..Len(computed) : computed[i].cached /\ computed[i].key = key}

\* The threads whose call has returned a value found in or stored into the cache.
Served == {t \in Threads : callers[t].pc = "done" /\ IsHashable(callers[t].arch)}

FileIdentity(path) == <<MemoDisk[path].st_dev, MemoDisk[path].st_ino>>

\* C15: with the content-digest key, calls on paths with identical bytes (other
\* arguments equal) are computed once and get the same value; with the inode
\* key, calls on two distinct files have distinct keys and each is computed.
C15_CacheKeying ==
    \A t \in Served, u \in Served :
        callers[t].arch = callers[u].arch =>
            /\ (decorator = "filehash"
                /\ MemoDisk[callers[t].path].bytes = MemoDisk[callers[u].path].bytes)
                  => /\ callers[t].value = callers[u].value
                     /\ Cardinality(ComputedFor(callers[t].key)) = 1
                     /\ callers[t].key = callers[u].key
            /\ (decorator = "inode"
                /\ FileIdentity(callers[t].path) # FileIdentity(callers[u].path))
                  => /\ callers[t].key # callers[u].key
                     /\ \E i \in ComputedFor(callers[t].key) : TRUE
                     /\ \E i \in ComputedFor(callers[u].key) : TRUE

\* C16: the worklist is a FIFO queue: the pair examined in a step is the pair
\* that the step removes from the front, so no pair is removed unexamined, and
\* when the walk returns every pair ever appended has been examined, in the
\* order of appending.
C16_Fifo ==
    /\ Len(popped) = Len(examined)
    /\ \A i \in 1..Len(popped) : popped[i] = examined[i]
    /\ pc = "returned" => examined = enqueued

\* C17: parent linkage is recorded for every path put into the worklist,
\* whether or not resolve_filenames is set: every path in todo is a key of
\* parents_by_filename, and a walk with resolve_filenames=False and
\* recurse=True is not left by a KeyError of the ancestor chain.
C17_ParentsRecorded ==
    /\ \A i \in 1..Len(todo) : todo[i].file \in DOMAIN parents_by_filename
    /\ (~resolve_filenames /\ recurse) => error # "KeyError"

\* The candidate directories of a call without forced rpath, in the order
\* search paths, LD_LIBRARY_PATH entries, default paths.
Candidates(a) ==
    a.rpaths_transitive
    \o (IF a.LD_LIBRARY_PATH = <<>> THEN <<>> ELSE SplitColon(a.LD_LIBRARY_PATH))
    \o [i \in 1..Len(a.default_paths) |->
          Replace(a.default_paths[i], <<"$SYSROOT", "/">>, a.sysroot)]

\* The reference of a call with its tokens replaced, for a candidate directory.
Substituted(a, dir) ==
    Replace(Replace(Replace(a.unresolved, <<"$RPATH">>, dir), <<"$SELFDIR">>, a.selfdir),
            <<"$EXEDIR">>, a.exedir)

\* C18: for a reference that starts with $RPATH and no forced rpath, the
\* candidates are tried in the order search paths, LD_LIBRARY_PATH entries,
\* default paths; the value is the substituted path of the first candidate
\* whose substituted path exists, with that candidate as the used path, and the
\* reference unchanged with no used path and not in the sysroot if there is none.
C18_FirstExistingCandidate ==
    (Resolved /\ RpathBranch(call.args.unresolved) /\ ~Truthy(call.args.resolved_rpath)) =>
        LET cands == Candidates(call.args)
            hits  == {i \in 1..Len(cands) : exists(files, Substituted(call.args, cands[i]))}
        IN  IF hits = {} THEN call.value = <<call.args.unresolved, None, "False">>
            ELSE \E i \in hits :
                    /\ \A j \in hits : i <= j
                    /\ call.value[1] = Substituted(call.args, cands[i])
                    /\ call.value[2] = cands[i]

\* libx.so lies under /opt/old, the search path, and under /opt/run, the second
\* LD_LIBRARY_PATH entry: the search path wins.
C18_Witness ==
    /\ Resolved
    /\ call.args.unresolved = <<"$RPATH", "/", "libx.so">>
    /\ ~Truthy(call.args.resolved_rpath)
    /\ call.args.rpaths_transitive = << <<"/", "opt", "/", "old">> >>
    /\ call.args.LD_LIBRARY_PATH = <<"/", "nodir", ":", "/", "opt", "/", "run">>
    /\ exists(files, <<"/", "opt", "/", "run", "/", "libx.so">>)
    /\ call.value[1] = <<"/", "opt", "/", "old", "/", "libx.so">>
    /\ call.value[2] = <<"/", "opt", "/", "old">>

\* The directory <dir> of a default path $SYSROOT/<dir> under the sysroot S:
\* S/<dir>, and /<dir> for the empty sysroot.
UnderSysroot(sroot, default_path) ==
    sroot \o <<"/">> \o SubSeq(default_path, 3, Len(default_path))

\* C19: the default-path candidates are the default directories under the
\* sysroot: with a sysroot S without trailing separator, and no other search
\* path, a $RPATH reference is found under the first S/<dir> that holds the file
\* (/<dir> for the empty sysroot) and is unresolved if no S/<dir> holds it.
C19_DefaultsUnderSysroot ==
    (/\ Resolved
     /\ RpathBranch(call.args.unresolved)
     /\ ~Truthy(call.args.resolved_rpath)
     /\ call.args.rpaths_transitive = <<>>
     /\ call.args.LD_LIBRARY_PATH = <<>>
     /\ call.args.sysroot = _trim_sysroot(call.args.sysroot)) =>
        LET dps  == call.args.default_paths
            dirs == [i \in 1..Len(dps) |-> UnderSysroot(call.args.sysroot, dps[i])]
            hits == {i \in 1..Len(dirs) : exists(files, Substituted(call.args, dirs[i]))}
        IN  IF hits = {} THEN call.value = <<call.args.unresolved, None, "False">>
            ELSE \E i \in hits :
                    /\ \A j \in hits : i <= j
                    /\ call.value[1] = Substituted(call.args, dirs[i])
                    /\ call.value[2] = dirs[i]

\* The processed records of a file, and the concatenation of the own search
\* paths of a list of files that each have one.
RecordsOf(f) == {i \in 1..Len(processed) : processed[i].file = f}

RECURSIVE OwnPathsOf(_)
OwnPathsOf(fs) ==
    IF fs = <<>> THEN <<>>
    ELSE processed[CHOOSE i \in RecordsOf(Head(fs)) : TRUE].rpaths \o OwnPathsOf(Tail(fs))

\* A list reversed.
Reverse(xs) == [i \in 1..Len(xs) |-> xs[Len(xs) + 1 - i]]

C20_WitnessPe ==
    \E i \in 1..Len(processed) :
        LET p == processed[i] IN
        /\ p.format = "PE"
        /\ Len(p.chain) >= 2
        /\ processed[1].rpaths # <<>>
        /\ p.rpaths # <<>>
        /\ p.rpaths_transitive = p.rpaths

\* The uniqueness keys of the paths a step appends to the worklist.
AppendedKeys ==
    {get_uniqueness_key(parse(files, enqueued'[i])) :
        i \in {j \in (Len(enqueued) + 1)..Len(enqueued') : IsBinary(parse(files, enqueued'[j]))}}

RECURSIVE ExistingRefs(_)
ExistingRefs(n) ==
    IF n = 0 THEN 0
    ELSE ExistingRefs(n - 1)
         + Cardinality({k \in 1..Len(processed[n].locs) : exists(files, processed[n].locs[k])})

C22_ParentForest ==
    filename \in DOMAIN parents_by_filename =>
        /\ parents_by_filename[filename] = None
        /\ \A f \in DOMAIN parents_by_filename :
              /\ f \notin Ancestors(parents_by_filename, f, {})
              /\ LET chain == Chain(parents_by_filename, f, <<>>)
                 IN  chain.status = "ok" /\ chain.nodes[Len(chain.nodes)] = filename

\* C23: the memoization layer is transparent for linkages: every set that
\* get_linkages_memoized has returned is the set an uncached get_linkages call
\* with the same arguments returns on the same filesystem, also for a file
\* whose bytes equal those of a file in another directory.
C23_MemoTransparent ==
    \A t \in Threads :
        callers[t].pc = "done" =>
            callers[t].value = get_linkages(files, callers[t].path,
                                            callers[t].resolve_filenames,
                                            callers[t].recurse).result

====
